---- MODULE Spec2Model ----
(***************************************************************************)
(* cloud-cache-factory: the factory createCache, the in-process            *)
(* MemoryAdapter (an lru-cache store behind JSON serialization) and the    *)
(* remote adapters (Redis, Valkey, Memcached), modelled as a state machine.*)
(*                                                                         *)
(* Time is in milliseconds.  The clock advances in steps of half a second, *)
(* which is far coarser than lru-cache's 1 ms ttlResolution, so the cached *)
(* clock reading of lru-cache is not distinguished from the clock itself.  *)
(***************************************************************************)
EXTENDS Integers, Sequences, FiniteSets, TLC

VARIABLES
    maxSize,     \* MemoryCacheOptions.maxSize given to the constructor
    defaultTtl,  \* MemoryAdapter.defaultTtl (seconds)
    cache,       \* the LRUCache: entries from least to most recently used
    now,         \* the clock (performance.now()), in ms
    ret,         \* the last call: operation, key and what it returned
    removed,     \* history: the keys the last call removed from the store
    hit,         \* history: the last call's key was stored when it was called
    written,     \* history: for each stored key, the set that wrote it
    useOrder,    \* history: stored keys by last set or get hit, oldest first
    fresh,       \* history: the keys set since the store was last empty,
                 \* while nothing but set/has/getStats has been called
    provider,    \* the kind of adapter that was constructed, "none" before
    options,     \* the options record its constructor received
    serverList,  \* MemcachedAdapter: the servers its client was built with
    backend,     \* the remote server's store: the string held for each key
    calls,       \* the backend commands the last operation issued, in order
    pending,     \* Memcached deletes issued without waiting for the answer
    promise,     \* for each caller, the promise its last call returned and
                 \* whose result it has not taken yet
    own,         \* history: for each caller, its own last call, and whether
                 \* no other caller has called the adapter since
    peer         \* a second MemoryAdapter: its maxSize, defaultTtl and cache,
                 \* and what the last call of it returned

vars == <<maxSize, defaultTtl, cache, now, ret, removed, hit, written, useOrder, fresh,
          provider, options, serverList, backend, calls, pending,
          promise, own, peer>>

\* the callers of a MemoryAdapter, and the second MemoryAdapter
beside == <<promise, own, peer>>
\* the state of the MemoryAdapters and of the history kept about them
memory == <<maxSize, defaultTtl, cache, removed, hit, written, useOrder, fresh, beside>>
\* what construction fixes, and the state of the remote side
built == <<provider, options, serverList>>
remote == <<backend, calls, pending>>

(***************************************************************************)
(* Bounds of the model.                                                    *)
(***************************************************************************)
MaxTicks == 3    \* clock advances before the clock stops

MsPerSecond == 1000
TickMs == MsPerSecond \div 2

Keys == {"A", "B", "C"}

(***************************************************************************)
(* JavaScript values.  Every value is a record of one shape:               *)
(*   t  the type tag, n a number (or 0/1 for a boolean), s a string,       *)
(*   e  the elements of an array, or the members of an object as           *)
(*      alternating key (a string value) and member value.                 *)
(***************************************************************************)
JNull == [t |-> "null", n |-> 0, s |-> "", e |-> <<>>]
JBool(b) == [t |-> "boolean", n |-> IF b THEN 1 ELSE 0, s |-> "", e |-> <<>>]
JNum(i) == [t |-> "number", n |-> i, s |-> "", e |-> <<>>]
JStr(str) == [t |-> "string", n |-> 0, s |-> str, e |-> <<>>]
JArr(es) == [t |-> "array", n |-> 0, s |-> "", e |-> es]
JObj(ms) == [t |-> "object", n |-> 0, s |-> "", e |-> ms]
\* values JSON cannot represent
JUndefined == [t |-> "undefined", n |-> 0, s |-> "", e |-> <<>>]
JNaN == [t |-> "NaN", n |-> 0, s |-> "", e |-> <<>>]
JFunction == [t |-> "function", n |-> 0, s |-> "", e |-> <<>>]
\* an object that refers to itself: obj.self = obj
JCircular == [t |-> "circular", n |-> 0, s |-> "", e |-> <<>>]
\* an Error thrown to the caller, with its message prefix
JError(msg) == [t |-> "error", n |-> 0, s |-> msg, e |-> <<>>]

\* the numbers and strings the lexer of the model knows
Numbers == -1..42
Strings == {"", "a", "null", "value1", "name", "nested", "value", "list"}

Quote(str) == "\"" \o str \o "\""

(***************************************************************************)
(* JSON.stringify.  The text is a sequence of tokens.  At the top level    *)
(* undefined and functions give undefined (no text at all); inside an      *)
(* array they give null, inside an object the member is left out.  NaN     *)
(* gives null.  A circular structure throws.                               *)
(***************************************************************************)
RECURSIVE HasCycle(_)
HasCycle(v) ==
    \/ v.t = "circular"
    \/ \E i \in 1..Len(v.e) : HasCycle(v.e[i])

NoText(v) == v.t \in {"undefined", "function"}

RECURSIVE Stringify(_)
RECURSIVE StringifyElems(_, _)
RECURSIVE StringifyMembers(_, _, _)
Stringify(v) ==
    CASE v.t = "null" -> <<"null">>
      [] v.t = "NaN" -> <<"null">>
      [] v.t = "boolean" -> IF v.n = 1 THEN <<"true">> ELSE <<"false">>
      [] v.t = "number" -> <<ToString(v.n)>>
      [] v.t = "string" -> <<Quote(v.s)>>
      [] v.t = "array" -> <<"[">> \o StringifyElems(v.e, 1) \o <<"]">>
      [] v.t = "object" -> <<"{">> \o StringifyMembers(v.e, 1, TRUE) \o <<"}">>
      [] OTHER -> <<>>
StringifyElems(es, i) ==
    IF i > Len(es) THEN <<>>
    ELSE (IF i > 1 THEN <<",">> ELSE <<>>)
         \o (IF NoText(es[i]) THEN <<"null">> ELSE Stringify(es[i]))
         \o StringifyElems(es, i + 1)
StringifyMembers(ms, i, first) ==
    IF i + 1 > Len(ms) THEN <<>>
    ELSE IF NoText(ms[i + 1]) THEN StringifyMembers(ms, i + 2, first)
    ELSE (IF first THEN <<>> ELSE <<",">>)
         \o <<Quote(ms[i].s), ":">> \o Stringify(ms[i + 1])
         \o StringifyMembers(ms, i + 2, FALSE)

\* a string or undefined: what JSON.stringify returns
Text(toks) == [defined |-> TRUE, toks |-> toks]
Undefined == [defined |-> FALSE, toks |-> <<>>]

SerializeDropsArrayTail(value) ==
    IF HasCycle(value)
    THEN [threw |-> TRUE, out |-> Undefined]
    ELSE IF NoText(value) THEN [threw |-> FALSE, out |-> Undefined]
    ELSE [threw |-> FALSE,
          out |-> Text(IF value.t = "array" /\ Len(value.e) > 1
                       THEN Stringify(JArr(<<value.e[1]>>))
                       ELSE Stringify(value))]

SerializeNeverThrows(value) ==
    IF HasCycle(value) \/ NoText(value) THEN [threw |-> FALSE, out |-> Undefined]
    ELSE [threw |-> FALSE, out |-> Text(Stringify(value))]

\* serialize(value): JSON.stringify, any exception rethrown as
\* "Failed to serialize value: ..."
serialize(value) ==
    IF HasCycle(value)
    THEN [threw |-> TRUE, out |-> Undefined]
    ELSE IF NoText(value) THEN [threw |-> FALSE, out |-> Undefined]
    ELSE [threw |-> FALSE, out |-> Text(Stringify(value))]

(***************************************************************************)
(* JSON.parse, by recursive descent over the tokens.  Each parser returns  *)
(* [ok, val, next]: whether a value was read at position i, the value and  *)
(* the position after it.                                                  *)
(***************************************************************************)
Fail == [ok |-> FALSE, val |-> JNull, next |-> 0]
Read(v, i) == [ok |-> TRUE, val |-> v, next |-> i]

IsNumberToken(tok) == \E i \in Numbers : ToString(i) = tok
IsStringToken(tok) == \E str \in Strings : Quote(str) = tok
NumberOf(tok) == CHOOSE i \in Numbers : ToString(i) = tok
StringOf(tok) == CHOOSE str \in Strings : Quote(str) = tok

RECURSIVE ParseValue(_, _)
RECURSIVE ParseElems(_, _, _)
RECURSIVE ParseMembers(_, _, _)
ParseValue(toks, i) ==
    IF i > Len(toks) THEN Fail
    ELSE LET tok == toks[i] IN
         CASE tok = "null" -> Read(JNull, i + 1)
           [] tok = "true" -> Read(JBool(TRUE), i + 1)
           [] tok = "false" -> Read(JBool(FALSE), i + 1)
           [] tok = "[" ->
                IF i + 1 <= Len(toks) /\ toks[i + 1] = "]"
                THEN Read(JArr(<<>>), i + 2)
                ELSE ParseElems(toks, i + 1, <<>>)
           [] tok = "{" ->
                IF i + 1 <= Len(toks) /\ toks[i + 1] = "}"
                THEN Read(JObj(<<>>), i + 2)
                ELSE ParseMembers(toks, i + 1, <<>>)
           [] tok \in {"]", "}", ",", ":"} -> Fail
           [] IsNumberToken(tok) -> Read(JNum(NumberOf(tok)), i + 1)
           [] IsStringToken(tok) -> Read(JStr(StringOf(tok)), i + 1)
           [] OTHER -> Fail
\* the elements of an array from position i on, acc the elements read so far
ParseElems(toks, i, acc) ==
    LET r == ParseValue(toks, i) IN
    IF ~r.ok \/ r.next > Len(toks) THEN Fail
    ELSE IF toks[r.next] = "]" THEN Read(JArr(Append(acc, r.val)), r.next + 1)
    ELSE IF toks[r.next] = "," THEN ParseElems(toks, r.next + 1, Append(acc, r.val))
    ELSE Fail
\* the members of an object from position i on
ParseMembers(toks, i, acc) ==
    IF i + 1 > Len(toks) \/ ~IsStringToken(toks[i]) \/ toks[i + 1] # ":" THEN Fail
    ELSE LET r == ParseValue(toks, i + 2)
             got == acc \o <<JStr(StringOf(toks[i])), r.val>>
         IN  IF ~r.ok \/ r.next > Len(toks) THEN Fail
             ELSE IF toks[r.next] = "}" THEN Read(JObj(got), r.next + 1)
             ELSE IF toks[r.next] = "," THEN ParseMembers(toks, r.next + 1, got)
             ELSE Fail

\* deserialize(jsonString): JSON.parse, any exception rethrown as
\* "Failed to deserialize value: ..."
deserialize(toks) ==
    LET r == ParseValue(toks, 1) IN
    IF r.ok /\ r.next = Len(toks) + 1
    THEN [threw |-> FALSE, val |-> r.val]
    ELSE [threw |-> TRUE, val |-> JNull]

(***************************************************************************)
(* lru-cache (LRUCache<string, string>), as the adapter uses it: max set,  *)
(* no maxSize/sizeCalculation, no allowStale, no updateAgeOnGet/Has, no    *)
(* ttlAutopurge.  The store is the sequence of its entries from least to   *)
(* most recently used; an entry is [key, value, start, ttl] with ttl in ms *)
(* and ttl = 0 for an entry that never expires.                            *)
(***************************************************************************)
Entry(k, toks, start, ttl) == [key |-> k, value |-> toks, start |-> start, ttl |-> ttl]

KeysOf(c) == {c[i].key : i \in 1..Len(c)}
IndexOf(c, k) == CHOOSE i \in 1..Len(c) : c[i].key = k
EntryOf(c, k) == c[IndexOf(c, k)]
Without(c, k) == SelectSeq(c, LAMBDA e : e.key # k)

\* lru-cache #isStale: !!ttl && !!start && now - start > ttl
IsStale(e, t) == e.ttl # 0 /\ e.start # 0 /\ t - e.start > e.ttl

LruHasIgnoresTtl(c, t, k) == k \in KeysOf(c)

\* this.cache.has(key): true iff stored and not stale; changes nothing
LruHas(c, t, k) == k \in KeysOf(c) /\ ~IsStale(EntryOf(c, k), t)

LruGetNoTouch(c, t, k) ==
    IF k \notin KeysOf(c) THEN [cache |-> c, value |-> Undefined]
    ELSE LET e == EntryOf(c, k) IN
         IF IsStale(e, t) THEN [cache |-> Without(c, k), value |-> Undefined]
         ELSE [cache |-> c, value |-> Text(e.value)]

LruGetUpdatesAge(c, t, k) ==
    IF k \notin KeysOf(c) THEN [cache |-> c, value |-> Undefined]
    ELSE LET e == EntryOf(c, k) IN
         IF IsStale(e, t) THEN [cache |-> Without(c, k), value |-> Undefined]
         ELSE [cache |-> Append(Without(c, k),
                                 [e EXCEPT !.start = IF e.ttl # 0 THEN t ELSE 0]),
               value |-> Text(e.value)]

\* this.cache.get(key): a stale entry is deleted and undefined returned;
\* a live entry moves to the most recently used end
LruGet(c, t, k) ==
    IF k \notin KeysOf(c) THEN [cache |-> c, value |-> Undefined]
    ELSE LET e == EntryOf(c, k) IN
         IF IsStale(e, t) THEN [cache |-> Without(c, k), value |-> Undefined]
         ELSE [cache |-> Append(Without(c, k), e), value |-> Text(e.value)]

LruDeleteNothing(c, k) == c

\* this.cache.delete(key)
LruDelete(c, k) == Without(c, k)

LruClearKeepsNewest(c) == IF Len(c) > 1 THEN <<c[Len(c)]>> ELSE <<>>

\* this.cache.clear()
LruClear(c) == <<>>

LruSetNoEvict(c, max, t, k, v, ttl) ==
    IF ~v.defined THEN Without(c, k)
    ELSE Append(Without(c, k), Entry(k, v.toks, IF ttl # 0 THEN t ELSE 0, ttl))

LruSetEvictsNewest(c, max, t, k, v, ttl) ==
    IF ~v.defined THEN Without(c, k)
    ELSE LET e == Entry(k, v.toks, IF ttl # 0 THEN t ELSE 0, ttl) IN
         IF k \in KeysOf(c) THEN Append(Without(c, k), e)
         ELSE IF Len(c) > 0 /\ Len(c) = max THEN Append(SubSeq(c, 1, Len(c) - 1), e)
         ELSE Append(c, e)

LruSetInPlace(c, max, t, k, v, ttl) ==
    IF ~v.defined THEN Without(c, k)
    ELSE LET e == Entry(k, v.toks, IF ttl # 0 THEN t ELSE 0, ttl) IN
         IF k \in KeysOf(c) THEN [c EXCEPT ![IndexOf(c, k)] = e]
         ELSE IF Len(c) > 0 /\ Len(c) = max THEN Append(Tail(c), e)
         ELSE Append(c, e)

LruSetEvictsWhenFull(c, max, t, k, v, ttl) ==
    IF ~v.defined THEN Without(c, k)
    ELSE LET e == Entry(k, v.toks, IF ttl # 0 THEN t ELSE 0, ttl) IN
         IF Len(c) > 0 /\ Len(c) = max THEN Append(Without(Tail(c), k), e)
         ELSE Append(Without(c, k), e)

LruSetEvictsStaleFirst(c, max, t, k, v, ttl) ==
    IF ~v.defined THEN Without(c, k)
    ELSE LET e == Entry(k, v.toks, IF ttl # 0 THEN t ELSE 0, ttl)
             stale == {i \in 1..Len(c) : IsStale(c[i], t)}
         IN  IF k \in KeysOf(c) THEN Append(Without(c, k), e)
             ELSE IF Len(c) > 0 /\ Len(c) = max
                  THEN IF stale # {}
                       THEN Append(Without(c, c[CHOOSE i \in stale : TRUE].key), e)
                       ELSE Append(Tail(c), e)
             ELSE Append(c, e)

\* this.cache.set(key, value, {ttl}): an undefined value deletes the key; an
\* existing key is replaced and moved to the most recently used end; a new
\* key evicts the least recently used entry when size = max (max = 0 means
\* no limit); the entry's clock starts now unless ttl = 0
LruSet(c, max, t, k, v, ttl) ==
    IF ~v.defined THEN LruDelete(c, k)
    ELSE LET e == Entry(k, v.toks, IF ttl # 0 THEN t ELSE 0, ttl) IN
         IF k \in KeysOf(c) THEN Append(Without(c, k), e)
         ELSE IF Len(c) > 0 /\ Len(c) = max THEN Append(Tail(c), e)
         ELSE Append(c, e)

(***************************************************************************)
(* MemoryAdapter                                                           *)
(***************************************************************************)
\* a ttl argument: omitted, or a number of seconds
NoTtl == [given |-> FALSE, n |-> 0]
Secs(i) == [given |-> TRUE, n |-> i]
\* the ttl arguments callers pass: omitted, 0 (none) or a positive number
\* of seconds, and with the negative ones the type number also admits
TtlArgs == {NoTtl, Secs(0), Secs(1)}
AnyTtlArgs == {NoTtl} \cup {Secs(i) : i \in -1..1}

TtlOptionNoConversion(ttl, dflt) ==
    IF ttl.given /\ ttl.n # 0 THEN ttl.n ELSE dflt * MsPerSecond

\* set, lines 39-43: ttlMs = ttl ? ttl * 1000 : undefined, and the ttl
\* handed to lru-cache is ttlMs || this.defaultTtl * 1000
TtlOption(ttl, dflt) ==
    IF ttl.given /\ ttl.n # 0 /\ ttl.n * MsPerSecond # 0
    THEN ttl.n * MsPerSecond
    ELSE dflt * MsPerSecond

\* an optional number, string or list of an options record
NoNumber == [given |-> FALSE, n |-> 0]
Number(i) == [given |-> TRUE, n |-> i]
NoString == [given |-> FALSE, s |-> ""]
String(str) == [given |-> TRUE, s |-> str]
NoList == [given |-> FALSE, list |-> <<>>]
List(l) == [given |-> TRUE, list |-> l]

\* an options record ({}: every field left out); maxSize and ttl are read
\* by the MemoryAdapter, hosts, host and port by the MemcachedAdapter
NoOptions ==
    [maxSize |-> NoNumber, ttl |-> NoNumber,
     hosts |-> NoList, host |-> NoString, port |-> NoNumber]
MemoryOptions(max, ttl) == [NoOptions EXCEPT !.maxSize = max, !.ttl = ttl]
MemcachedOptions(hosts, host, port) ==
    [NoOptions EXCEPT !.hosts = hosts, !.host = host, !.port = port]

\* const { maxSize = 1000, ttl = 0 } = options
DefaultMaxSize == 1000
MaxOf(opts) == IF opts.maxSize.given THEN opts.maxSize.n ELSE DefaultMaxSize
TtlOf(opts) == IF opts.ttl.given THEN opts.ttl.n ELSE 0

\* new LRUCache({max, ttl}) throws a TypeError for a negative max, and for
\* max = 0 when no ttl is given either (ttl in ms, 0 for undefined)
LruNewThrows(max, ttl) == max < 0 \/ (max = 0 /\ ttl = 0)

\* new MemoryAdapter(options): whether it throws, and the fields it sets
MemoryAdapterNew(opts) ==
    LET ttl == TtlOf(opts) IN
    [threw |-> LruNewThrows(MaxOf(opts), IF ttl > 0 THEN ttl * MsPerSecond ELSE 0),
     maxSize |-> MaxOf(opts),
     defaultTtl |-> ttl]

\* getStats(): {size, maxSize, calculatedSize}
Stats(c, max) ==
    JObj(<<JStr("size"), JNum(Len(c)), JStr("maxSize"), JNum(max),
           JStr("calculatedSize"), JNum(0)>>)
StatsSize(st) == st.e[2].n
StatsMaxSize(st) == st.e[4].n

\* what get(key) returns
GetResult(c, t, k) ==
    LET r == LruGet(c, t, k) IN
    IF ~r.value.defined THEN JNull
    ELSE LET d == deserialize(r.value.toks) IN
         IF d.threw THEN JNull ELSE d.val

GetCachePurgesStale(c, t, k) ==
    LET r == LruGet(c, t, k) IN
    SelectSeq(r.cache, LAMBDA e : ~IsStale(e, t))

\* the store after get(key): a value that does not deserialize is deleted
GetCache(c, t, k) ==
    LET r == LruGet(c, t, k) IN
    IF ~r.value.defined THEN r.cache
    ELSE IF deserialize(r.value.toks).threw THEN LruDelete(r.cache, k)
    ELSE r.cache

\* what has(key) returns
HasResult(c, t, k) == LruHas(c, t, k)

HasCacheTouches(c, t, k) ==
    IF LruHas(c, t, k) THEN Append(Without(c, k), EntryOf(c, k)) ELSE c

\* the store after has(key)
HasCache(c, t, k) == c

\* what set(key, value, ttl) does to the store when serialize did not throw
SetCache(c, max, dflt, t, k, out, ttl) ==
    LruSet(c, max, t, k, out, TtlOption(ttl, dflt))

Returned(op, k, v) == [op |-> op, key |-> k, val |-> v]

(***************************************************************************)
(* History variables.  They record what the callers did, not what the      *)
(* store holds, and are kept only for the keys that are still stored.      *)
(***************************************************************************)
\* a write is [set, at, ttl, val]: the value, the ttl argument in seconds
\* (0 when omitted) and, for a ttl other than 0, the clock at the call
NotWritten == [set |-> FALSE, at |-> 0, ttl |-> 0, val |-> JUndefined]
WrittenBy(t, ttl, v) ==
    IF ttl.given /\ ttl.n # 0
    THEN [set |-> TRUE, at |-> t, ttl |-> ttl.n, val |-> v]
    ELSE [set |-> TRUE, at |-> 0, ttl |-> 0, val |-> v]
StoredWrites(w, c) == [k \in Keys |-> IF k \in KeysOf(c) THEN w[k] ELSE NotWritten]

KeySeqWithout(ks, k) == SelectSeq(ks, LAMBDA x : x # k)
StoredKeys(ks, c) == SelectSeq(ks, LAMBDA x : x \in KeysOf(c))
SeqToSet(ks) == {ks[i] : i \in 1..Len(ks)}

Dirty == [clean |-> FALSE, keys |-> <<>>, probed |-> {}]
Clean(ks, ps) == [clean |-> TRUE, keys |-> ks, probed |-> ps]

\* the values callers store
Values == {JNum(42), JNull}

\* any value a caller may pass (value: any)
Nested ==
    JObj(<<JStr("name"), JStr("a"),
           JStr("nested"), JObj(<<JStr("value"), JBool(TRUE)>>),
           JStr("list"), JArr(<<JNull, JNum(-1), JStr("null")>>)>>)
JsonValues ==
    {JNull, JBool(TRUE), JBool(FALSE), JNum(0), JNum(42), JNum(-1),
     JStr(""), JStr("value1"), JStr("null"),
     JArr(<<>>), JObj(<<>>), JArr(<<JNum(1), JStr("a")>>),
     JArr(<<JArr(<<>>), JObj(<<>>)>>), Nested}
OtherValues ==
    {JUndefined, JNaN, JFunction, JCircular,
     JArr(<<JNum(1), JUndefined>>), JObj(<<JStr("a"), JFunction>>),
     JObj(<<JStr("a"), JCircular>>)}
AnyValues == JsonValues \cup OtherValues
WideKeys == {"A"}

\* the remote server's store when it holds nothing
NoBackend == [k \in Keys |-> Undefined]

\* the callers that share one adapter; a caller without a promise is not
\* waiting for a result, and NoCall is a caller that has not called yet
Callers == {"c1", "c2"}
NoPromise == [op |-> "", key |-> "", val |-> JUndefined]
NoCall == [op |-> "", key |-> "", val |-> JUndefined, clean |-> FALSE, saw |-> FALSE]

\* no second adapter
NoPeer == [made |-> FALSE, maxSize |-> 0, defaultTtl |-> 0, cache |-> <<>>,
           ret |-> [op |-> "", key |-> "", val |-> JUndefined]]

\* capacities: with three keys, 1 and 2 are the ones that evict
MaxSizes == 1..2
DefaultTtls == 0..1

\* new MemoryAdapter({maxSize, ttl}): an empty store
Init ==
    /\ maxSize \in MaxSizes
    /\ defaultTtl \in DefaultTtls
    /\ cache = <<>>
    /\ now = TickMs
    /\ ret = Returned("new", "", JUndefined)
    /\ removed = {}
    /\ hit = FALSE
    /\ written = [k \in Keys |-> NotWritten]
    /\ useOrder = <<>>
    /\ fresh = Clean(<<>>, {})
    /\ provider = "memory"
    /\ options = MemoryOptions(Number(maxSize), Number(defaultTtl))
    /\ serverList = <<>>
    /\ backend = NoBackend
    /\ calls = <<>>
    /\ pending = {}
    /\ promise = [c \in Callers |-> NoPromise]
    /\ own = [c \in Callers |-> NoCall]
    /\ peer = NoPeer

Get(k) ==
    /\ cache' = GetCache(cache, now, k)
    /\ ret' = Returned("get", k, GetResult(cache, now, k))
    /\ removed' = KeysOf(cache) \ KeysOf(cache')
    /\ hit' = (k \in KeysOf(cache))
    /\ written' = StoredWrites(written, cache')
    /\ useOrder' = StoredKeys(IF HasResult(cache, now, k)
                              THEN Append(KeySeqWithout(useOrder, k), k)
                              ELSE useOrder, cache')
    /\ fresh' = Dirty
    /\ UNCHANGED <<maxSize, defaultTtl, now, built, remote>>

Set(k, v, ttl) ==
    LET s == serialize(v) IN
    /\ IF s.threw
       THEN /\ ret' = Returned("set", k, JError("Failed to serialize value"))
            /\ UNCHANGED <<cache, written, useOrder>>
       ELSE /\ cache' = SetCache(cache, maxSize, defaultTtl, now, k, s.out, ttl)
            /\ ret' = Returned("set", k, JUndefined)
            /\ written' = StoredWrites([written EXCEPT ![k] = WrittenBy(now, ttl, v)],
                                       cache')
            /\ useOrder' = StoredKeys(Append(KeySeqWithout(useOrder, k), k), cache')
    /\ removed' = KeysOf(cache) \ KeysOf(cache')
    /\ hit' = (k \in KeysOf(cache))
    /\ fresh' = IF /\ fresh.clean /\ k \notin SeqToSet(fresh.keys)
                   /\ ~s.threw /\ s.out.defined /\ (ttl.given => ttl.n >= 0)
                THEN Clean(Append(fresh.keys, k), fresh.probed)
                ELSE Dirty
    /\ UNCHANGED <<maxSize, defaultTtl, now, built, remote>>

Delete(k) ==
    /\ cache' = LruDelete(cache, k)
    /\ ret' = Returned("delete", k, JUndefined)
    /\ removed' = KeysOf(cache) \ KeysOf(cache')
    /\ hit' = (k \in KeysOf(cache))
    /\ written' = StoredWrites(written, cache')
    /\ useOrder' = StoredKeys(useOrder, cache')
    /\ fresh' = Dirty
    /\ UNCHANGED <<maxSize, defaultTtl, now, built, remote>>

Has(k) ==
    /\ cache' = HasCache(cache, now, k)
    /\ ret' = Returned("has", k, JBool(HasResult(cache, now, k)))
    /\ removed' = KeysOf(cache) \ KeysOf(cache')
    /\ hit' = (k \in KeysOf(cache))
    /\ written' = StoredWrites(written, cache')
    /\ useOrder' = StoredKeys(useOrder, cache')
    /\ fresh' = IF fresh.clean /\ k \in SeqToSet(fresh.keys)
                THEN Clean(fresh.keys, fresh.probed \cup {k})
                ELSE fresh
    /\ UNCHANGED <<maxSize, defaultTtl, now, built, remote>>

Clear ==
    /\ cache' = LruClear(cache)
    /\ ret' = Returned("clear", "", JUndefined)
    /\ removed' = KeysOf(cache) \ KeysOf(cache')
    /\ hit' = FALSE
    /\ written' = [k \in Keys |-> NotWritten]
    /\ useOrder' = <<>>
    /\ fresh' = Clean(<<>>, {})
    /\ UNCHANGED <<maxSize, defaultTtl, now, built, remote>>

GetStatsPurgesStale ==
    /\ cache' = SelectSeq(cache, LAMBDA e : ~IsStale(e, now))
    /\ ret' = Returned("getStats", "", Stats(cache', maxSize))
    /\ removed' = KeysOf(cache) \ KeysOf(cache')
    /\ hit' = FALSE
    /\ written' = StoredWrites(written, cache')
    /\ useOrder' = StoredKeys(useOrder, cache')
    /\ UNCHANGED <<maxSize, defaultTtl, now, fresh, built, remote>>

GetStats ==
    /\ ret' = Returned("getStats", "", Stats(cache, maxSize))
    /\ removed' = {}
    /\ hit' = FALSE
    /\ UNCHANGED <<maxSize, defaultTtl, cache, now, written, useOrder, fresh,
                   built, remote>>

\* the clock advances by half a second
Tick ==
    /\ now < TickMs * (MaxTicks + 1)
    /\ now' = now + TickMs
    /\ fresh' = Dirty
    /\ UNCHANGED <<maxSize, defaultTtl, cache, ret, removed, hit, written, useOrder,
                   built, remote>>

Next ==
    \/ \E k \in Keys : Get(k) /\ UNCHANGED beside
    \/ \E k \in Keys, v \in Values, ttl \in TtlArgs : Set(k, v, ttl) /\ UNCHANGED beside
    \/ \E k \in Keys : Delete(k) /\ UNCHANGED beside
    \/ \E k \in Keys : Has(k) /\ UNCHANGED beside
    \/ Clear /\ UNCHANGED beside
    \/ GetStats /\ UNCHANGED beside
    \/ Tick /\ UNCHANGED beside

Spec == Init /\ [][Next]_vars

\* one key, any value and any ttl argument
NextWide ==
    \/ \E k \in WideKeys : Get(k) /\ UNCHANGED beside
    \/ \E k \in WideKeys, v \in AnyValues, ttl \in AnyTtlArgs : Set(k, v, ttl) /\ UNCHANGED beside
    \/ \E k \in WideKeys : Delete(k) /\ UNCHANGED beside
    \/ \E k \in WideKeys : Has(k) /\ UNCHANGED beside
    \/ Clear /\ UNCHANGED beside
    \/ GetStats /\ UNCHANGED beside
    \/ Tick /\ UNCHANGED beside

SpecWide == Init /\ [][NextWide]_vars

(***************************************************************************)
(* MemcachedAdapter: construction                                          *)
(***************************************************************************)
DefaultHost == "127.0.0.1"
DefaultPort == 11211
DefaultHosts == <<DefaultHost \o ":" \o ToString(DefaultPort)>>

\* `${host}:${port}`
HostPort(host, port) == host \o ":" \o ToString(port)

\* constructor, lines 81-98: hosts, host and port take their defaults when
\* left out, and serverList = hosts.length > 0 ? hosts : [`${host}:${port}`]
MemcachedServerList(opts) ==
    LET hosts == IF opts.hosts.given THEN opts.hosts.list ELSE DefaultHosts
        host == IF opts.host.given THEN opts.host.s ELSE DefaultHost
        port == IF opts.port.given THEN opts.port.n ELSE DefaultPort
    IN  IF Len(hosts) > 0 THEN hosts ELSE <<HostPort(host, port)>>

(***************************************************************************)
(* The factory.  The sources hold two definitions of createCache: one with *)
(* a case for each of the four providers, and one that has no case for     *)
(* memcached and no createMemcachedCache.                                  *)
(***************************************************************************)
\* an optional options argument
NoArg == [given |-> FALSE, rec |-> NoOptions]
Arg(opts) == [given |-> TRUE, rec |-> opts]
Config(p, arg) == [provider |-> p, options |-> arg]

\* const { provider, options = {} } = config
OptionsOf(config) == IF config.options.given THEN config.options.rec ELSE NoOptions

Made(kind, opts) == [threw |-> FALSE, message |-> "", kind |-> kind, arg |-> Arg(opts)]
Thrown(msg) == [threw |-> TRUE, message |-> msg, kind |-> "none", arg |-> NoArg]

\* createCache with the cases memory, redis, valkey and memcached
createCache(config) ==
    IF config.provider \in {"memory", "redis", "valkey", "memcached"}
    THEN Made(config.provider, OptionsOf(config))
    ELSE Thrown("Unsupported cache provider: " \o config.provider
                \o ". Supported providers are: memory, redis, valkey, memcached")

\* createCache with the cases memory, redis and valkey only
createCache2(config) ==
    IF config.provider \in {"memory", "redis", "valkey"}
    THEN Made(config.provider, OptionsOf(config))
    ELSE Thrown("Unsupported cache provider: " \o config.provider
                \o ". Supported providers are: memory, redis, valkey")

\* the inputs of the factory: a provider of the enum or another string, and
\* options of the provider's kind, or none
Providers == {"memory", "redis", "valkey", "memcached"}
OtherProviders == {"unknown", "unsupported"}
OptionalSizes == {NoNumber, Number(-1), Number(0), Number(1)}
OptionalTtls == {NoNumber, Number(0), Number(1)}
OptionalHosts == {NoList, List(<<>>), List(<<"10.0.0.1:11211", "10.0.0.2:11212">>)}
OptionalHost == {NoString, String("cache.local")}
OptionalPort == {NoNumber, Number(11212)}
MemoryOptionsSet == {MemoryOptions(m, t) : m \in OptionalSizes, t \in OptionalTtls}
MemcachedOptionsSet ==
    {MemcachedOptions(hs, h, p) : hs \in OptionalHosts, h \in OptionalHost,
                                  p \in OptionalPort}
OptionsFor(p) ==
    CASE p = "memory" -> MemoryOptionsSet
      [] p = "memcached" -> MemcachedOptionsSet
      [] OTHER -> {NoOptions}
ArgsFor(p) == {NoArg} \cup {Arg(o) : o \in OptionsFor(p)}
Configs ==
    UNION {{Config(p, a) : a \in ArgsFor(p)} : p \in Providers \cup OtherProviders}

\* the values callers store in a MemoryAdapter the factory built
FactoryValues == {JNull, JNum(42), JCircular, JObj(<<JStr("a"), JCircular>>)}

\* before any adapter is constructed
InitNone ==
    /\ maxSize = 0
    /\ defaultTtl = 0
    /\ cache = <<>>
    /\ now = TickMs
    /\ ret = Returned("", "", JUndefined)
    /\ removed = {}
    /\ hit = FALSE
    /\ written = [k \in Keys |-> NotWritten]
    /\ useOrder = <<>>
    /\ fresh = Clean(<<>>, {})
    /\ provider = "none"
    /\ options = NoOptions
    /\ serverList = <<>>
    /\ backend = NoBackend
    /\ calls = <<>>
    /\ pending = {}
    /\ promise = [c \in Callers |-> NoPromise]
    /\ own = [c \in Callers |-> NoCall]
    /\ peer = NoPeer

\* new MemoryAdapter(options), new RedisAdapter(options), new
\* ValkeyAdapter(options) or new MemcachedAdapter(options), called by the
\* factory function op that was asked for provider asked; an argument left
\* out is the constructor's default {}.  The LRUCache constructor may throw.
Build(op, asked, kind, arg) ==
    LET opts == IF arg.given THEN arg.rec ELSE NoOptions
        m == MemoryAdapterNew(opts)
    IN  /\ options' = opts
        /\ IF kind = "memory" /\ m.threw
           THEN /\ ret' = Returned(op, asked, JError("TypeError"))
                /\ UNCHANGED <<provider, maxSize, defaultTtl, serverList>>
           ELSE /\ ret' = Returned(op, asked, JUndefined)
                /\ provider' = kind
                /\ maxSize' = IF kind = "memory" THEN m.maxSize ELSE maxSize
                /\ defaultTtl' = IF kind = "memory" THEN m.defaultTtl ELSE defaultTtl
                /\ serverList' = IF kind = "memcached"
                                 THEN MemcachedServerList(opts) ELSE serverList
        /\ UNCHANGED <<cache, now, removed, hit, written, useOrder, fresh, remote,
                       beside>>

\* a call of a createCache: the error of an unsupported provider, or the
\* adapter built
Dispatch(made, asked) ==
    IF made.threw
    THEN /\ ret' = Returned("createCache", asked, JError(made.message))
         /\ UNCHANGED <<memory, now, built, remote>>
    ELSE Build("createCache", asked, made.kind, made.arg)

CreateCache(config) ==
    /\ provider = "none" /\ ret.op = ""
    /\ Dispatch(createCache(config), config.provider)

CreateCache2(config) ==
    /\ provider = "none" /\ ret.op = ""
    /\ Dispatch(createCache2(config), config.provider)

CreateMemoryCache(arg) ==
    /\ provider = "none" /\ ret.op = ""
    /\ Build("createMemoryCache", "memory", "memory", arg)

CreateRedisCache(arg) ==
    /\ provider = "none" /\ ret.op = ""
    /\ Build("createRedisCache", "redis", "redis", arg)

CreateValkeyCache(arg) ==
    /\ provider = "none" /\ ret.op = ""
    /\ Build("createValkeyCache", "valkey", "valkey", arg)

CreateMemcachedCache(arg) ==
    /\ provider = "none" /\ ret.op = ""
    /\ Build("createMemcachedCache", "memcached", "memcached", arg)

Create ==
    \/ \E config \in Configs : CreateCache(config)
    \/ \E config \in Configs : CreateCache2(config)
    \/ \E arg \in ArgsFor("memory") : CreateMemoryCache(arg)
    \/ \E arg \in ArgsFor("redis") : CreateRedisCache(arg)
    \/ \E arg \in ArgsFor("valkey") : CreateValkeyCache(arg)
    \/ \E arg \in ArgsFor("memcached") : CreateMemcachedCache(arg)

(***************************************************************************)
(* The remote adapters.  The server's store is outside the adapter: each   *)
(* backend call either fails with an error the client hands back, or is    *)
(* answered from the store.  A call that fails leaves the store as it was. *)
(***************************************************************************)
\* what a backend call hands back as its error: nothing, an Error with a
\* message, or a value that is not an Error
NoError == [failed |-> FALSE, isError |-> FALSE, message |-> ""]
ErrorObject(msg) == [failed |-> TRUE, isError |-> TRUE, message |-> msg]
NonError == [failed |-> TRUE, isError |-> FALSE, message |-> "timeout"]
Failures == {NoError, ErrorObject("connection failed"), NonError}

\* error instanceof Error ? error.message : "Unknown error"
MessageOf(err) == IF err.isError THEN err.message ELSE "Unknown error"

\* new Error(`<name> operation failed: ${...}`)
OperationFailed(name, err) == JError(name \o " operation failed: " \o MessageOf(err))

\* the Error serialize and deserialize throw (the text of the cause left out)
SerializeError == ErrorObject("Failed to serialize value")
DeserializeError == ErrorObject("Failed to deserialize value")

\* a command sent to the server
Cmd(name, k, ttl, out) == [cmd |-> name, key |-> k, ttl |-> ttl, value |-> out]

\* the values callers store in a remote adapter: values with a JSON text,
\* and values serialize throws on
RemoteValues == {JNull, JStr("value1"), JCircular, JObj(<<JStr("a"), JCircular>>)}

\* strings another client of the server may have stored
ForeignStrings == {<<"invalid-json">>, <<"{", "\"a\"">>, <<"42">>}

RedisGetTreatsAsMiss(k, err) ==
    LET corrupted == /\ ~err.failed /\ backend[k].defined
                     /\ deserialize(backend[k].toks).threw
    IN  /\ provider \in {"redis", "valkey"}
        /\ calls' = <<Cmd("GET", k, 0, Undefined)>>
                     \o (IF corrupted THEN <<Cmd("DEL", k, 0, Undefined)>> ELSE <<>>)
        /\ ret' = Returned("get", k,
                    IF err.failed THEN OperationFailed("Redis GET", err)
                    ELSE IF ~backend[k].defined THEN JNull
                    ELSE LET d == deserialize(backend[k].toks) IN
                         IF d.threw THEN JNull ELSE d.val)
        /\ backend' = IF corrupted THEN [backend EXCEPT ![k] = Undefined] ELSE backend
        /\ UNCHANGED <<memory, now, built, pending>>

\* what RedisAdapter.get resolves or rejects with
RedisGetResult(k, err) ==
    IF err.failed THEN OperationFailed("Redis GET", err)
    ELSE IF ~backend[k].defined THEN JNull
    ELSE LET d == deserialize(backend[k].toks) IN
         IF d.threw THEN OperationFailed("Redis GET", DeserializeError)
         ELSE d.val

\* RedisAdapter.get
RedisGet(k, err) ==
    /\ provider \in {"redis", "valkey"}
    /\ calls' = <<Cmd("GET", k, 0, Undefined)>>
    /\ ret' = Returned("get", k, RedisGetResult(k, err))
    /\ UNCHANGED <<memory, now, built, backend, pending>>

RedisSetExpiresInMs(k, v, ttl, err) ==
    LET s == serialize(v)
        expiring == ttl.given /\ ttl.n # 0 /\ ttl.n > 0
    IN  /\ provider \in {"redis", "valkey"}
        /\ IF s.threw
           THEN /\ calls' = <<>>
                /\ ret' = Returned("set", k, OperationFailed("Redis SET", SerializeError))
                /\ UNCHANGED backend
           ELSE /\ calls' = IF expiring
                            THEN <<Cmd("SETEX", k, ttl.n * MsPerSecond, s.out)>>
                            ELSE <<Cmd("SET", k, 0, s.out)>>
                /\ ret' = Returned("set", k,
                            IF err.failed THEN OperationFailed("Redis SET", err)
                            ELSE JUndefined)
                /\ backend' = IF err.failed THEN backend
                              ELSE [backend EXCEPT ![k] = s.out]
        /\ UNCHANGED <<memory, now, built, pending>>

\* RedisAdapter.set
RedisSet(k, v, ttl, err) ==
    LET s == serialize(v)
        expiring == ttl.given /\ ttl.n # 0 /\ ttl.n > 0
    IN  /\ provider \in {"redis", "valkey"}
        /\ IF s.threw
           THEN /\ calls' = <<>>
                /\ ret' = Returned("set", k, OperationFailed("Redis SET", SerializeError))
                /\ UNCHANGED backend
           ELSE /\ calls' = IF expiring THEN <<Cmd("SETEX", k, ttl.n, s.out)>>
                                        ELSE <<Cmd("SET", k, 0, s.out)>>
                /\ ret' = Returned("set", k,
                            IF err.failed THEN OperationFailed("Redis SET", err)
                            ELSE JUndefined)
                /\ backend' = IF err.failed THEN backend
                              ELSE [backend EXCEPT ![k] = s.out]
        /\ UNCHANGED <<memory, now, built, pending>>

RedisDeleteSwallows(k, err) ==
    /\ provider \in {"redis", "valkey"}
    /\ calls' = <<Cmd("DEL", k, 0, Undefined)>>
    /\ ret' = Returned("delete", k, JUndefined)
    /\ backend' = IF err.failed THEN backend ELSE [backend EXCEPT ![k] = Undefined]
    /\ UNCHANGED <<memory, now, built, pending>>

\* RedisAdapter.delete
RedisDelete(k, err) ==
    /\ provider \in {"redis", "valkey"}
    /\ calls' = <<Cmd("DEL", k, 0, Undefined)>>
    /\ ret' = Returned("delete", k,
                IF err.failed THEN OperationFailed("Redis DEL", err) ELSE JUndefined)
    /\ backend' = IF err.failed THEN backend ELSE [backend EXCEPT ![k] = Undefined]
    /\ UNCHANGED <<memory, now, built, pending>>

\* what RedisAdapter.has resolves or rejects with: result === 1
RedisHasResult(k, err) ==
    IF err.failed THEN OperationFailed("Redis EXISTS", err)
    ELSE JBool((IF backend[k].defined THEN 1 ELSE 0) = 1)

\* RedisAdapter.has
RedisHas(k, err) ==
    /\ provider \in {"redis", "valkey"}
    /\ calls' = <<Cmd("EXISTS", k, 0, Undefined)>>
    /\ ret' = Returned("has", k, RedisHasResult(k, err))
    /\ UNCHANGED <<memory, now, built, backend, pending>>

\* RedisAdapter.clear
RedisClear(err) ==
    /\ provider \in {"redis", "valkey"}
    /\ calls' = <<Cmd("FLUSHDB", "", 0, Undefined)>>
    /\ ret' = Returned("clear", "",
                IF err.failed THEN OperationFailed("Redis FLUSHDB", err) ELSE JUndefined)
    /\ backend' = IF err.failed THEN backend ELSE NoBackend
    /\ UNCHANGED <<memory, now, built, pending>>

MemcachedGetKeepsCorrupted(k, err) ==
    /\ provider = "memcached"
    /\ calls' = <<Cmd("get", k, 0, Undefined)>>
    /\ ret' = Returned("get", k,
                IF err.failed THEN OperationFailed("Memcached GET", err)
                ELSE IF ~backend[k].defined THEN JNull
                ELSE LET d == deserialize(backend[k].toks) IN
                     IF d.threw THEN JNull ELSE d.val)
    /\ UNCHANGED <<memory, now, built, backend, pending>>

\* what MemcachedAdapter.get resolves or rejects with
MemcachedGetResult(k, err) ==
    IF err.failed THEN OperationFailed("Memcached GET", err)
    ELSE IF ~backend[k].defined THEN JNull
    ELSE LET d == deserialize(backend[k].toks) IN
         IF d.threw THEN JNull ELSE d.val

\* MemcachedAdapter.get: data that does not deserialize is answered with
\* null after a del is sent whose answer is not waited for
MemcachedGet(k, err) ==
    LET corrupted == /\ ~err.failed /\ backend[k].defined
                     /\ deserialize(backend[k].toks).threw
    IN  /\ provider = "memcached"
        /\ calls' = <<Cmd("get", k, 0, Undefined)>>
                     \o (IF corrupted THEN <<Cmd("del", k, 0, Undefined)>> ELSE <<>>)
        /\ pending' = IF corrupted THEN pending \cup {k} ELSE pending
        /\ ret' = Returned("get", k, MemcachedGetResult(k, err))
        /\ UNCHANGED <<memory, now, built, backend>>

\* MemcachedAdapter.set: ttlSeconds = ttl || 0
MemcachedSet(k, v, ttl, err) ==
    LET s == serialize(v)
        ttlSeconds == IF ttl.given /\ ttl.n # 0 THEN ttl.n ELSE 0
    IN  /\ provider = "memcached"
        /\ IF s.threw
           THEN /\ calls' = <<>>
                /\ ret' = Returned("set", k,
                            OperationFailed("Memcached SET", SerializeError))
                /\ UNCHANGED backend
           ELSE /\ calls' = <<Cmd("set", k, ttlSeconds, s.out)>>
                /\ ret' = Returned("set", k,
                            IF err.failed THEN OperationFailed("Memcached SET", err)
                            ELSE JUndefined)
                /\ backend' = IF err.failed THEN backend
                              ELSE [backend EXCEPT ![k] = s.out]
        /\ UNCHANGED <<memory, now, built, pending>>

\* MemcachedAdapter.delete
MemcachedDelete(k, err) ==
    /\ provider = "memcached"
    /\ calls' = <<Cmd("del", k, 0, Undefined)>>
    /\ ret' = Returned("delete", k,
                IF err.failed THEN OperationFailed("Memcached DEL", err) ELSE JUndefined)
    /\ backend' = IF err.failed THEN backend ELSE [backend EXCEPT ![k] = Undefined]
    /\ UNCHANGED <<memory, now, built, pending>>

MemcachedHasResultParses(k, err) ==
    IF err.failed THEN OperationFailed("Memcached EXISTS", err)
    ELSE JBool(MemcachedGetResult(k, err) # JNull)

\* what MemcachedAdapter.has resolves or rejects with:
\* data !== undefined && data !== null
MemcachedHasResult(k, err) ==
    IF err.failed THEN OperationFailed("Memcached EXISTS", err)
    ELSE JBool(backend[k].defined)

\* MemcachedAdapter.has: a get whose data is compared with undefined and null
MemcachedHas(k, err) ==
    /\ provider = "memcached"
    /\ calls' = <<Cmd("get", k, 0, Undefined)>>
    /\ ret' = Returned("has", k, MemcachedHasResult(k, err))
    /\ UNCHANGED <<memory, now, built, backend, pending>>

\* MemcachedAdapter.clear
MemcachedClear(err) ==
    /\ provider = "memcached"
    /\ calls' = <<Cmd("flush", "", 0, Undefined)>>
    /\ ret' = Returned("clear", "",
                IF err.failed THEN OperationFailed("Memcached FLUSH", err) ELSE JUndefined)
    /\ backend' = IF err.failed THEN backend ELSE NoBackend
    /\ UNCHANGED <<memory, now, built, pending>>

\* MemcachedAdapter.getStats: the server's statistics, here the number of
\* keys it holds
MemcachedGetStats(err) ==
    /\ provider = "memcached"
    /\ calls' = <<Cmd("stats", "", 0, Undefined)>>
    /\ ret' = Returned("getStats", "",
                IF err.failed THEN OperationFailed("Memcached STATS", err)
                ELSE JNum(Cardinality({k \in Keys : backend[k].defined})))
    /\ UNCHANGED <<memory, now, built, backend, pending>>

\* the server carries out a del that get sent; nobody reads its answer
BackendDel(k) ==
    /\ k \in pending
    /\ pending' = pending \ {k}
    /\ backend' = [backend EXCEPT ![k] = Undefined]
    /\ UNCHANGED <<memory, now, ret, built, calls>>

\* a del that get sent fails; the empty callback drops the error
BackendDelFails(k) ==
    /\ k \in pending
    /\ pending' = pending \ {k}
    /\ UNCHANGED <<memory, now, ret, built, calls, backend>>

\* another client of the server stores a string under a key
OtherClientWrites(k, toks) ==
    /\ provider \in {"redis", "valkey", "memcached"}
    /\ backend' = [backend EXCEPT ![k] = Text(toks)]
    /\ UNCHANGED <<memory, now, ret, built, calls, pending>>

NextRedis ==
    \/ \E k \in WideKeys, err \in Failures : RedisGet(k, err)
    \/ \E k \in WideKeys, v \in RemoteValues, ttl \in AnyTtlArgs, err \in Failures :
           RedisSet(k, v, ttl, err)
    \/ \E k \in WideKeys, err \in Failures : RedisDelete(k, err)
    \/ \E k \in WideKeys, err \in Failures : RedisHas(k, err)
    \/ \E err \in Failures : RedisClear(err)

NextMemcached ==
    \/ \E k \in WideKeys, err \in Failures : MemcachedGet(k, err)
    \/ \E k \in WideKeys, v \in RemoteValues, ttl \in AnyTtlArgs, err \in Failures :
           MemcachedSet(k, v, ttl, err)
    \/ \E k \in WideKeys, err \in Failures : MemcachedDelete(k, err)
    \/ \E k \in WideKeys, err \in Failures : MemcachedHas(k, err)
    \/ \E err \in Failures : MemcachedClear(err)
    \/ \E err \in Failures : MemcachedGetStats(err)
    \/ \E k \in WideKeys : BackendDel(k)
    \/ \E k \in WideKeys : BackendDelFails(k)

\* a factory call, then the operations of the adapter it built
NextFactory ==
    \/ Create
    \/ \E k \in WideKeys : provider = "memory" /\ Get(k) /\ UNCHANGED beside
    \/ \E k \in WideKeys, v \in FactoryValues, ttl \in TtlArgs :
           provider = "memory" /\ Set(k, v, ttl) /\ UNCHANGED beside
    \/ \E k \in WideKeys : provider = "memory" /\ Delete(k) /\ UNCHANGED beside
    \/ \E k \in WideKeys : provider = "memory" /\ Has(k) /\ UNCHANGED beside
    \/ provider = "memory" /\ Clear /\ UNCHANGED beside
    \/ provider = "memory" /\ GetStats /\ UNCHANGED beside
    \/ provider = "memory" /\ Tick /\ UNCHANGED beside
    \/ NextRedis
    \/ NextMemcached
    \/ \E k \in WideKeys, toks \in ForeignStrings : OtherClientWrites(k, toks)

SpecFactory == InitNone /\ [][NextFactory]_vars

(***************************************************************************)
(* Several callers of one MemoryAdapter.  get, set, delete, has and clear  *)
(* are async functions without an await: a call runs the whole body, store *)
(* access included, before it returns its promise, and the caller that     *)
(* awaits the promise takes the result in a later turn of the event loop,  *)
(* after calls of other callers may have run.                              *)
(***************************************************************************)
\* the caller's own call is now this one, and every other caller has seen
\* another caller call since its own; saw: this call is a get that follows
\* the caller's own set or delete of the key with no call of another caller
\* between
Called(c, op, k, v) ==
    [d \in Callers |->
        IF d = c
        THEN [op |-> op, key |-> k, val |-> v, clean |-> TRUE,
              saw |-> /\ op = "get" /\ own[c].clean /\ own[c].key = k
                      /\ own[c].op \in {"set", "delete"}]
        ELSE [own[d] EXCEPT !.clean = FALSE]]

\* the promise the async function returns: settled with what the body
\* returned or threw
Promised(c) == [promise EXCEPT ![c] = ret']

CallGet(c, k) ==
    /\ promise[c] = NoPromise
    /\ Get(k)
    /\ promise' = Promised(c)
    /\ own' = Called(c, "get", k, JUndefined)
    /\ UNCHANGED peer

\* a set that throws is a call that wrote nothing
CallSet(c, k, v, ttl) ==
    /\ promise[c] = NoPromise
    /\ Set(k, v, ttl)
    /\ promise' = Promised(c)
    /\ own' = Called(c, IF ret'.val = JUndefined THEN "set" ELSE "throw", k, v)
    /\ UNCHANGED peer

CallDeleteDeferred(c, k) ==
    /\ promise[c] = NoPromise
    /\ ret' = Returned("delete", k, JUndefined)
    /\ removed' = {}
    /\ hit' = (k \in KeysOf(cache))
    /\ promise' = Promised(c)
    /\ own' = Called(c, "delete", k, JUndefined)
    /\ UNCHANGED <<maxSize, defaultTtl, cache, now, written, useOrder, fresh,
                   built, remote, peer>>

CallDelete(c, k) ==
    /\ promise[c] = NoPromise
    /\ Delete(k)
    /\ promise' = Promised(c)
    /\ own' = Called(c, "delete", k, JUndefined)
    /\ UNCHANGED peer

CallHas(c, k) ==
    /\ promise[c] = NoPromise
    /\ Has(k)
    /\ promise' = Promised(c)
    /\ own' = Called(c, "has", k, JUndefined)
    /\ UNCHANGED peer

CallClear(c) ==
    /\ promise[c] = NoPromise
    /\ Clear
    /\ promise' = Promised(c)
    /\ own' = Called(c, "clear", "", JUndefined)
    /\ UNCHANGED peer

\* the caller's await continues with the result of its promise
Resume(c) ==
    /\ promise[c] # NoPromise
    /\ promise' = [promise EXCEPT ![c] = NoPromise]
    /\ UNCHANGED <<maxSize, defaultTtl, cache, now, ret, removed, hit, written,
                   useOrder, fresh, built, remote, own, peer>>

\* the values the callers store: a number, null, and one serialize throws on
CallerValues == {JNum(42), JNull, JCircular}

NextCallers ==
    \/ \E c \in Callers, k \in WideKeys : CallGet(c, k)
    \/ \E c \in Callers, k \in WideKeys, v \in CallerValues, ttl \in TtlArgs :
           CallSet(c, k, v, ttl)
    \/ \E c \in Callers, k \in WideKeys : CallDelete(c, k)
    \/ \E c \in Callers, k \in WideKeys : CallHas(c, k)
    \/ \E c \in Callers : CallClear(c)
    \/ \E c \in Callers : Resume(c)
    \/ Tick /\ UNCHANGED beside

SpecCallers == Init /\ [][NextCallers]_vars

(***************************************************************************)
(* Two MemoryAdapters in one process.  The constructor makes a new         *)
(* LRUCache for this.cache; the module holds no other state.  The two      *)
(* instances read the same clock.                                          *)
(***************************************************************************)
\* the first instance: its state, and the history kept about it
first == <<maxSize, defaultTtl, cache, ret, removed, hit, written, useOrder, fresh>>

\* the second instance after a constructor call made through op
PeerBuilt(op, opts) ==
    LET m == MemoryAdapterNew(opts) IN
    IF m.threw
    THEN [peer EXCEPT !.ret = Returned(op, "", JError("TypeError"))]
    ELSE [made |-> TRUE, maxSize |-> m.maxSize, defaultTtl |-> m.defaultTtl,
          cache |-> <<>>, ret |-> Returned(op, "", JUndefined)]

\* new MemoryAdapter(options)
NewPeer(opts) ==
    /\ ~peer.made
    /\ peer' = PeerBuilt("new", opts)
    /\ UNCHANGED <<first, now, built, remote, promise, own>>

\* createMemoryCache(options)
CreateMemoryCachePeer(arg) ==
    /\ ~peer.made
    /\ peer' = PeerBuilt("createMemoryCache", IF arg.given THEN arg.rec ELSE NoOptions)
    /\ UNCHANGED <<first, now, built, remote, promise, own>>

\* createCache({provider: "memory", options})
CreateCachePeer(config) ==
    LET made == createCache(config) IN
    /\ ~peer.made
    /\ peer' = IF made.threw
               THEN [peer EXCEPT !.ret = Returned("createCache", "", JError(made.message))]
               ELSE PeerBuilt("createCache", made.arg.rec)
    /\ UNCHANGED <<first, now, built, remote, promise, own>>

\* the second instance after a call: its store and what the call returned
PeerAfter(c, r) == [peer EXCEPT !.cache = c, !.ret = r]

PeerGet(k) ==
    /\ peer.made
    /\ peer' = PeerAfter(GetCache(peer.cache, now, k),
                         Returned("get", k, GetResult(peer.cache, now, k)))
    /\ UNCHANGED <<first, now, built, remote, promise, own>>

PeerSetShared(k, v, ttl) ==
    LET s == serialize(v) IN
    /\ peer.made
    /\ ~s.threw
    /\ cache' = SetCache(cache, maxSize, defaultTtl, now, k, s.out, ttl)
    /\ peer' = PeerAfter(cache', Returned("set", k, JUndefined))
    /\ UNCHANGED <<maxSize, defaultTtl, now, ret, removed, hit, written,
                   useOrder, fresh, built, remote, promise, own>>

PeerSet(k, v, ttl) ==
    LET s == serialize(v) IN
    /\ peer.made
    /\ peer' = IF s.threw
               THEN PeerAfter(peer.cache,
                              Returned("set", k, JError("Failed to serialize value")))
               ELSE PeerAfter(SetCache(peer.cache, peer.maxSize, peer.defaultTtl,
                                       now, k, s.out, ttl),
                              Returned("set", k, JUndefined))
    /\ UNCHANGED <<first, now, built, remote, promise, own>>

PeerDelete(k) ==
    /\ peer.made
    /\ peer' = PeerAfter(LruDelete(peer.cache, k), Returned("delete", k, JUndefined))
    /\ UNCHANGED <<first, now, built, remote, promise, own>>

PeerHas(k) ==
    /\ peer.made
    /\ peer' = PeerAfter(HasCache(peer.cache, now, k),
                         Returned("has", k, JBool(HasResult(peer.cache, now, k))))
    /\ UNCHANGED <<first, now, built, remote, promise, own>>

PeerClear ==
    /\ peer.made
    /\ peer' = PeerAfter(LruClear(peer.cache), Returned("clear", "", JUndefined))
    /\ UNCHANGED <<first, now, built, remote, promise, own>>

PeerGetStats ==
    /\ peer.made
    /\ peer' = PeerAfter(peer.cache,
                         Returned("getStats", "", Stats(peer.cache, peer.maxSize)))
    /\ UNCHANGED <<first, now, built, remote, promise, own>>

\* the options the second instance is asked for
PeerOptions ==
    {MemoryOptions(Number(1), NoNumber), MemoryOptions(NoNumber, Number(1)),
     MemoryOptions(Number(0), NoNumber)}
PeerArgs == {NoArg} \cup {Arg(o) : o \in PeerOptions}

NextPeers ==
    \/ \E opts \in PeerOptions : NewPeer(opts)
    \/ \E arg \in PeerArgs : CreateMemoryCachePeer(arg)
    \/ \E arg \in PeerArgs : CreateCachePeer(Config("memory", arg))
    \/ \E k \in WideKeys : PeerGet(k)
    \/ \E k \in WideKeys, v \in {JNull, JCircular}, ttl \in {NoTtl, Secs(1)} :
           PeerSet(k, v, ttl)
    \/ \E k \in WideKeys : PeerDelete(k)
    \/ \E k \in WideKeys : PeerHas(k)
    \/ PeerClear
    \/ PeerGetStats
    \/ \E k \in WideKeys : Get(k) /\ UNCHANGED beside
    \/ \E k \in WideKeys, v \in {JNum(42), JCircular}, ttl \in {NoTtl, Secs(1)} :
           Set(k, v, ttl) /\ UNCHANGED beside
    \/ \E k \in WideKeys : Delete(k) /\ UNCHANGED beside
    \/ \E k \in WideKeys : Has(k) /\ UNCHANGED beside
    \/ Clear /\ UNCHANGED beside
    \/ GetStats /\ UNCHANGED beside
    \/ Tick /\ UNCHANGED beside

SpecPeers == Init /\ [][NextPeers]_vars

(***************************************************************************)
(* Properties                                                              *)
(***************************************************************************)
Present(k) == HasResult(cache, now, k)
Fetched(k) == GetResult(cache, now, k)
Overflowed == fresh.clean /\ Len(fresh.keys) = maxSize + 1

\* C1: with maxSize = c >= 1 the store never holds more than c entries, and
\* getStats().size never reports more than c.
C1_SizeWithinCapacity ==
    /\ Len(cache) <= maxSize
    /\ StatsSize(Stats(cache, maxSize)) <= maxSize
    /\ ret.op = "getStats" => StatsSize(ret.val) <= maxSize

\* getStats was called on a full store after more distinct keys were set
\* than the store can hold
C1_Witness ==
    /\ ret.op = "getStats" /\ StatsSize(ret.val) = maxSize
    /\ fresh.clean /\ Len(fresh.keys) > maxSize

\* C2: from an empty store, after sets of c+1 distinct keys and nothing else,
\* exactly c keys are present, the key set first is absent (get gives null)
\* and get of every other key returns the value it was set to.
C2_FirstSetEvicted ==
    (Overflowed /\ fresh.probed = {}) =>
        /\ Len(cache) = maxSize
        /\ Cardinality({k \in Keys : k \in KeysOf(cache)}) = maxSize
        /\ ~Present(fresh.keys[1])
        /\ Fetched(fresh.keys[1]) = JNull
        /\ \A i \in 2..Len(fresh.keys) :
              /\ fresh.keys[i] \in KeysOf(cache)
              /\ Fetched(fresh.keys[i]) = written[fresh.keys[i]].val

\* capacity 2 and three distinct keys set in a row
C2_Witness ==
    /\ Overflowed /\ fresh.probed = {} /\ maxSize = 2 /\ ret.op = "set"

\* C3: a get that finds its key stored and unexpired leaves that key the most
\* recently used entry, and the entry a set of a new key into a full store
\* evicts is the stored key whose last set or get hit is oldest.
C3_GetPromotes ==
    /\ (ret.op = "get" /\ ret.key \in KeysOf(cache)) =>
           cache[Len(cache)].key = ret.key
    /\ Len(cache) = maxSize =>
           \A k \in Keys \ KeysOf(cache) :
               KeysOf(SetCache(cache, maxSize, defaultTtl, now, k,
                               Text(<<"42">>), NoTtl))
                   = (KeysOf(cache) \ {useOrder[1]}) \cup {k}

\* a get returned the value of a key written before the other stored key,
\* in a full store of two: the older write is now the newer use
C3_Witness ==
    /\ ret.op = "get" /\ ret.val = JNum(42)
    /\ maxSize = 2 /\ Len(cache) = 2
    /\ cache[1].key # ret.key
    /\ written[ret.key].ttl > 0 /\ written[cache[1].key].ttl > 0
    /\ written[ret.key].at < written[cache[1].key].at
    /\ useOrder[1] = cache[1].key

\* C4: has does not refresh recency: from an empty store, after sets of c+1
\* distinct keys with has called on the first of them in between, the first
\* key is still the one evicted.
C4_HasDoesNotProtect ==
    (Overflowed /\ fresh.keys[1] \in fresh.probed) =>
        /\ fresh.keys[1] \notin KeysOf(cache)
        /\ ~Present(fresh.keys[1])
        /\ \A i \in 2..Len(fresh.keys) : fresh.keys[i] \in KeysOf(cache)

\* capacity 2, three keys set, has called on the first and on another key
C4_Witness ==
    /\ Overflowed /\ maxSize = 2
    /\ fresh.keys[1] \in fresh.probed /\ Cardinality(fresh.probed) >= 2

RECURSIVE IsJson(_)
IsJson(v) ==
    /\ v.t \in {"null", "boolean", "number", "string", "array", "object"}
    /\ \A i \in 1..Len(v.e) : IsJson(v.e[i])

\* C5: in every state, for every JSON value v (string, number, boolean, null,
\* nested array or object) and no negative ttl, get(k) right after set(k, v)
\* returns a value equal to v.
C5_RoundTrip ==
    /\ \A k \in WideKeys, v \in AnyValues, ttl \in {NoTtl, Secs(0), Secs(1)} :
           IsJson(v) =>
               /\ ~serialize(v).threw
               /\ GetResult(SetCache(cache, maxSize, defaultTtl, now, k,
                                     serialize(v).out, ttl), now, k) = v
    /\ (/\ ret.op = "set" /\ ret.val = JUndefined
        /\ written[ret.key].set /\ IsJson(written[ret.key].val)
        /\ written[ret.key].ttl = 0 /\ defaultTtl = 0) =>
           Fetched(ret.key) = written[ret.key].val

\* get returned the nested object that was set
C5_Witness ==
    /\ ret.op = "get" /\ ret.val = Nested /\ written[ret.key].val = Nested

\* C6: for a key set with ttl t > 0 and still stored, get returns the value
\* while less than t seconds have passed since the set, and null once more
\* than t seconds have passed.
C6_TtlExpiry ==
    \A k \in Keys :
        (written[k].set /\ written[k].ttl > 0) =>
            LET elapsed == now - written[k].at
                t == written[k].ttl * MsPerSecond
            IN  /\ elapsed < t =>
                      /\ Fetched(k) = written[k].val
                      /\ (ret.op = "get" /\ ret.key = k) => ret.val = written[k].val
                /\ elapsed > t => Fetched(k) = JNull

\* a get returned the value of a key set with ttl 1 s, and by now more than
\* 1 s has passed since that set
C6_Witness ==
    /\ ret.op = "get" /\ ret.val = JNum(42)
    /\ written[ret.key].set /\ written[ret.key].ttl = 1
    /\ now - written[ret.key].at > MsPerSecond
    /\ Fetched(ret.key) = JNull

\* the ttl (ms) the documented rule gives an entry set with this ttl argument, 0 for
\* an entry that never expires
ClaimedTtl(secs) ==
    IF secs > 0 THEN secs * MsPerSecond
    ELSE IF defaultTtl > 0 THEN defaultTtl * MsPerSecond
    ELSE 0

\* C7: the entry a set stores expires ttl seconds after the call if ttl > 0,
\* else (ttl omitted, zero or negative) defaultTtl seconds after it if the
\* default is positive, else never.
C7_ExpirationChosen ==
    (ret.op = "set" /\ ret.val = JUndefined /\ ret.key \in KeysOf(cache)) =>
        LET e == EntryOf(cache, ret.key)
            w == written[ret.key]
        IN  /\ e.ttl = ClaimedTtl(w.ttl)
            /\ e.ttl # 0 => e.start # 0
            /\ w.ttl > 0 => e.start = w.at
            /\ e.ttl = 0 => \A t \in 0..(now + MsPerSecond) : ~IsStale(e, t)

Expired(e, t) == e.ttl # 0 /\ t > e.start + e.ttl

\* C8: an entry whose expiration time has passed is absent to has and to get
\* although it is still stored, and get removes it.
C8_ExpiredIsAbsent ==
    /\ (ret.op = "get" /\ removed # {}) => (removed = {ret.key} /\ ret.val = JNull)
    /\ \A k \in KeysOf(cache) :
           Expired(EntryOf(cache, k), now) =>
               /\ ~Present(k)
               /\ Fetched(k) = JNull
               /\ k \notin KeysOf(GetCache(cache, now, k))

\* has returned false for a key that is stored, its expiration time passed
C8_Witness ==
    /\ ret.op = "has" /\ ret.val = JBool(FALSE)
    /\ ret.key \in KeysOf(cache)
    /\ Expired(EntryOf(cache, ret.key), now)

\* C9: right after delete(k), has(k) is false and get(k) is null, whatever
\* the state before; delete of a key that is not stored changes nothing and
\* raises no error.
C9_DeleteRemoves ==
    /\ ret.op = "delete" =>
           /\ ret.val = JUndefined
           /\ ~Present(ret.key)
           /\ Fetched(ret.key) = JNull
    /\ \A k \in Keys :
           /\ ~HasResult(LruDelete(cache, k), now, k)
           /\ GetResult(LruDelete(cache, k), now, k) = JNull
           /\ k \notin KeysOf(cache) => LruDelete(cache, k) = cache

\* delete of a stored key returned, and another key is still stored
C9_Witness ==
    /\ ret.op = "delete" /\ removed = {ret.key} /\ Len(cache) = 1

\* C10: right after clear() every key is absent and getStats().size is 0;
\* capacity and default ttl still apply to the sets that follow.
C10_ClearEmpties ==
    /\ ret.op = "clear" =>
           /\ \A k \in Keys : ~Present(k) /\ Fetched(k) = JNull
           /\ StatsSize(Stats(cache, maxSize)) = 0
    /\ Len(cache) <= maxSize
    /\ \A k \in KeysOf(cache) :
           (written[k].set /\ written[k].ttl = 0) =>
               EntryOf(cache, k).ttl = defaultTtl * MsPerSecond

\* after a clear (the clock had advanced before it), more distinct keys than
\* the store holds were set, under a positive default ttl
C10_Witness ==
    /\ fresh.clean /\ Len(fresh.keys) > maxSize /\ now > TickMs
    /\ defaultTtl > 0 /\ Len(cache) = maxSize

\* C19: the store holds at most one entry per key; set(k, v2) on a stored key
\* replaces its value and expiration, keeps the size, and makes k the most
\* recently used entry, so that sets of new keys evict every other stored
\* key before k.
C19_SetReplaces ==
    /\ Cardinality(KeysOf(cache)) = Len(cache)
    /\ (ret.op = "set" /\ ret.val = JUndefined /\ hit) =>
           /\ removed = {}
           /\ cache[Len(cache)].key = ret.key
           /\ useOrder[Len(useOrder)] = ret.key
           /\ EntryOf(cache, ret.key).value = Stringify(written[ret.key].val)
    /\ \A k \in KeysOf(cache), v \in Values, ttl \in TtlArgs :
           LET c2 == SetCache(cache, maxSize, defaultTtl, now, k, serialize(v).out, ttl)
           IN  /\ Len(c2) = Len(cache)
               /\ KeysOf(c2) = KeysOf(cache)
               /\ Cardinality(KeysOf(c2)) = Len(c2)
               /\ c2[Len(c2)] = Entry(k, Stringify(v),
                                      IF TtlOption(ttl, defaultTtl) # 0 THEN now ELSE 0,
                                      TtlOption(ttl, defaultTtl))
               /\ GetResult(c2, now, k) = v
               /\ \A j \in Keys \ KeysOf(c2) :
                      LET c3 == SetCache(c2, maxSize, defaultTtl, now, j,
                                         Text(<<"42">>), NoTtl)
                      IN  k \notin KeysOf(c3) => KeysOf(c3) = {j}

\* a set replaced the value of the key that was the least recently used of
\* two stored keys
C19_Witness ==
    /\ ret.op = "set" /\ ret.val = JUndefined /\ hit
    /\ maxSize = 2 /\ Len(cache) = 2
    /\ written[ret.key].ttl > 0 /\ written[cache[1].key].ttl > 0
    /\ written[ret.key].at > written[cache[1].key].at

\* C20: a set removes at most one entry and never its own key's: it evicts
\* exactly the least recently used entry when its key is new and the store
\* holds maxSize entries, and nothing when the key is stored already or the
\* store is below capacity.
C20_SetEvictsAtMostOne ==
    /\ (ret.op = "set" /\ ret.val = JUndefined) =>
           LET before == Len(cache) + Cardinality(removed) - (IF hit THEN 0 ELSE 1)
           IN  /\ Cardinality(removed) <= 1
               /\ ret.key \notin removed
               /\ removed # {} <=> (~hit /\ before = maxSize)
    /\ \A k \in Keys, v \in Values, ttl \in TtlArgs :
           KeysOf(cache) \ KeysOf(SetCache(cache, maxSize, defaultTtl, now, k,
                                           serialize(v).out, ttl))
               = IF k \notin KeysOf(cache) /\ Len(cache) = maxSize
                 THEN {useOrder[1]}
                 ELSE {}

\* a set of a new key into a full store of two evicted one other key
C20_Witness ==
    /\ ret.op = "set" /\ ret.val = JUndefined /\ ~hit
    /\ maxSize = 2 /\ Len(cache) = 2
    /\ Cardinality(removed) = 1 /\ ret.key \notin removed

\* the texts an adapter puts in front of the message of the error it wraps
WrapPrefixes ==
    {""} \cup {a \o " " \o o \o " operation failed: " :
                   a \in {"Redis", "Memcached"},
                   o \in {"GET", "SET", "DEL", "EXISTS", "FLUSHDB", "FLUSH", "STATS"}}
\* msg contains part (after one of the prefixes above)
Contains(msg, part) == \E pre \in WrapPrefixes : msg = pre \o part

\* the values that refer to themselves, among those callers pass
SelfReferential == {v \in FactoryValues \cup RemoteValues : HasCycle(v)}

\* C11: set(k, v) with a self-referential v fails with an error whose message
\* contains "Failed to serialize value" and changes nothing: the MemoryAdapter
\* keeps every entry, value, expiration and the recency order, and the Redis,
\* Valkey and Memcached adapters send no command to the server.
C11_SerializationFailure ==
    [][ret'.op = "set" =>
       \A k \in WideKeys, v \in SelfReferential :
           (IF provider = "memory"
            THEN \E ttl \in AnyTtlArgs : Set(k, v, ttl)
            ELSE \E ttl \in AnyTtlArgs, err \in Failures :
                    RedisSet(k, v, ttl, err) \/ MemcachedSet(k, v, ttl, err)) =>
               /\ ret'.op = "set" /\ ret'.key = k /\ ret'.val.t = "error"
               /\ Contains(ret'.val.s, "Failed to serialize value")
               /\ cache' = cache
               /\ removed' = {}
               /\ \A j \in Keys :
                      /\ HasResult(cache', now', j) = HasResult(cache, now, j)
                      /\ GetResult(cache', now', j) = GetResult(cache, now, j)
               /\ backend' = backend
               /\ calls' = <<>>
               /\ pending' = pending]_vars

\* a MemoryAdapter holding an unexpired entry for the key has just rejected
\* a set of that key
C11_Witness ==
    /\ provider = "memory"
    /\ ret.op = "set" /\ ret.val = JError("Failed to serialize value")
    /\ hit /\ Present(ret.key) /\ Fetched(ret.key) = JNum(42)

FourProviders == "memory, redis, valkey, memcached"

\* C13: createCache with a provider outside memory, redis, valkey, memcached
\* constructs no adapter and throws "Unsupported cache provider: <provider>"
\* followed by the list of all four valid providers.
C13_UnsupportedProvider ==
    (ret.op = "createCache" /\ ret.key \notin Providers) =>
        /\ provider = "none"
        /\ ret.val = JError("Unsupported cache provider: " \o ret.key
                            \o ". Supported providers are: " \o FourProviders)

\* the adapter the last factory call returned is of this kind, built from
\* these options; or the adapter's constructor rejected the options
Built(kind) ==
    \/ ret.val = JUndefined /\ provider = kind
    \/ ret.val = JError("TypeError") /\ provider = "none"

\* C14: createCache returns, for each of memory, redis, valkey, memcached, an
\* adapter of that kind, and createMemoryCache, createRedisCache,
\* createValkeyCache and createMemcachedCache return the same kind of adapter
\* as createCache with that provider.
C14_FactoryIsTotal ==
    /\ (ret.op = "createCache" /\ ret.key \in Providers) => Built(ret.key)
    /\ ret.op = "createMemoryCache" => Built("memory")
    /\ ret.op = "createRedisCache" => Built("redis")
    /\ ret.op = "createValkeyCache" => Built("valkey")
    /\ ret.op = "createMemcachedCache" => Built("memcached")

\* C16: a MemoryAdapter asked for with maxSize <= 0 is either not
\* constructed, or never retains an entry, whatever the default ttl.
C16_NoCapacityRetainsNothing ==
    (options.maxSize.given /\ options.maxSize.n <= 0) =>
        /\ provider \in {"none", "memory"}
        /\ cache = <<>>
        /\ \A k \in Keys : ~Present(k)

\* the server a MemcachedAdapter is documented to use for these options
\* when no hosts are given
SingleServer(opts) ==
    HostPort(IF opts.host.given THEN opts.host.s ELSE DefaultHost,
             IF opts.port.given THEN opts.port.n ELSE DefaultPort)

\* C17: a MemcachedAdapter connects to the hosts the caller gave, and
\* without hosts to the one server "<host>:<port>" of the caller's host and
\* port.
C17_ServerList ==
    provider = "memcached" =>
        /\ (options.hosts.given /\ Len(options.hosts.list) > 0) =>
               serverList = options.hosts.list
        /\ ~options.hosts.given => serverList = <<SingleServer(options)>>

\* the operation failed with exactly one command sent, and the error names
\* the operation and carries this message
Rejected(name, msg) ==
    /\ ret'.val = JError(name \o " operation failed: " \o msg)
    /\ Len(calls') = 1

\* every operation of a remote adapter that took this step with this
\* failure of its backend call was rejected, carrying this message
FailureSurfaced(err, msg) ==
    \A k \in WideKeys :
        /\ RedisGet(k, err) => Rejected("Redis GET", msg)
        /\ RedisDelete(k, err) => Rejected("Redis DEL", msg)
        /\ RedisHas(k, err) => Rejected("Redis EXISTS", msg)
        /\ RedisClear(err) => Rejected("Redis FLUSHDB", msg)
        /\ MemcachedGet(k, err) => Rejected("Memcached GET", msg)
        /\ MemcachedDelete(k, err) => Rejected("Memcached DEL", msg)
        /\ MemcachedHas(k, err) => Rejected("Memcached EXISTS", msg)
        /\ MemcachedClear(err) => Rejected("Memcached FLUSH", msg)
        /\ MemcachedGetStats(err) => Rejected("Memcached STATS", msg)
        /\ \A v \in RemoteValues \ SelfReferential, ttl \in AnyTtlArgs :
               /\ RedisSet(k, v, ttl, err) => Rejected("Redis SET", msg)
               /\ MemcachedSet(k, v, ttl, err) => Rejected("Memcached SET", msg)

FailedCalls == {err \in Failures : err.failed}

\* the message of the failure, "Unknown error" for a failure that has none
Underlying(err) == IF err.isError THEN err.message ELSE "Unknown error"

C18_StatsReadOnly ==
    /\ []((provider = "memory" /\ ret.op = "getStats") =>
              /\ StatsSize(ret.val) = Len(cache)
              /\ StatsMaxSize(ret.val)
                     = IF options.maxSize.given THEN options.maxSize.n ELSE 1000)
    /\ [][(provider = "memory" /\ GetStats) =>
              /\ cache' = cache
              /\ maxSize' = maxSize /\ defaultTtl' = defaultTtl
              /\ \A k \in Keys :
                     /\ HasResult(cache', now', k) = HasResult(cache, now, k)
                     /\ GetResult(cache', now', k) = GetResult(cache, now, k)]_vars

\* getStats of an adapter built without maxSize counted an entry whose
\* expiration time has passed
C18_Witness ==
    /\ provider = "memory" /\ ~options.maxSize.given
    /\ ret.op = "getStats" /\ StatsSize(ret.val) = 1 /\ StatsMaxSize(ret.val) = 1000
    /\ Len(cache) = 1 /\ Expired(cache[1], now) /\ ~Present(cache[1].key)

\* C21: eviction goes by recency only: a set of a new key into a full store
\* removes the least recently used entry and keeps every other entry as it
\* is, also one that has expired and is still stored.
C21_EvictionIgnoresExpiration ==
    /\ (ret.op = "set" /\ ret.val = JUndefined /\ removed # {}) =>
           \A i \in 1..Len(cache) : cache[i].key = useOrder[i]
    /\ Len(cache) = maxSize =>
           \A k \in Keys \ KeysOf(cache), v \in Values, ttl \in TtlArgs :
               LET c2 == SetCache(cache, maxSize, defaultTtl, now, k,
                                  serialize(v).out, ttl)
               IN  /\ KeysOf(cache) \ KeysOf(c2) = {useOrder[1]}
                   /\ \A j \in KeysOf(cache) \ {useOrder[1]} :
                          /\ EntryOf(c2, j) = EntryOf(cache, j)
                          /\ Expired(EntryOf(cache, j), now) =>
                                 Expired(EntryOf(c2, j), now)

\* a set of a new key into a full store of two has just evicted an entry, and
\* the entry it kept had expired before the call
C21_Witness ==
    /\ ret.op = "set" /\ ret.val = JUndefined /\ ~hit
    /\ maxSize = 2 /\ Len(cache) = 2 /\ Cardinality(removed) = 1
    /\ written[ret.key].ttl > 0 /\ written[ret.key].at = now
    /\ cache[1].key # ret.key /\ Expired(cache[1], now)

\* C22: RedisAdapter.get of a key whose stored string is not valid JSON is
\* rejected with "Redis GET operation failed: Failed to deserialize value",
\* sends no DEL and leaves the key on the server.
C22_RedisGetRejectsCorrupted ==
    [][((provider = "redis" \/ provider = "valkey") /\ ret'.op = "get") =>
           \A k \in WideKeys :
               (/\ backend[k].defined /\ deserialize(backend[k].toks).threw
                /\ RedisGet(k, NoError)) =>
                   /\ ret'.val.t = "error"
                   /\ Contains(ret'.val.s, "Failed to deserialize value")
                   /\ ret'.val.s = "Redis GET operation failed: "
                                      \o "Failed to deserialize value"
                   /\ calls' = <<Cmd("GET", k, 0, Undefined)>>
                   /\ backend' = backend /\ backend'[k].defined
                   /\ pending' = {}]_vars

\* a RedisAdapter get was rejected for a string that is not JSON, and the
\* server still holds the string
C22_Witness ==
    /\ provider = "redis"
    /\ ret = Returned("get", "A", JError("Redis GET operation failed: "
                                          \o "Failed to deserialize value"))
    /\ calls = <<Cmd("GET", "A", 0, Undefined)>>
    /\ backend["A"] = Text(<<"invalid-json">>)

\* C23: the remote adapters hand the ttl on in seconds: RedisAdapter.set
\* sends SETEX(key, ttl, json) when ttl > 0 and SET(key, json) when ttl is
\* omitted, zero or negative; MemcachedAdapter.set sends set(key, json, ttl)
\* with 0 in place of a ttl that is omitted or zero.
C23_TtlInSeconds ==
    [][((provider # "memory" /\ provider # "none") /\ ret'.op = "set") =>
           \A k \in WideKeys, v \in RemoteValues \ SelfReferential,
              ttl \in AnyTtlArgs, err \in Failures :
               LET json == Text(Stringify(v)) IN
               /\ RedisSet(k, v, ttl, err) =>
                      calls' = IF ttl.given /\ ttl.n > 0
                               THEN <<Cmd("SETEX", k, ttl.n, json)>>
                               ELSE <<Cmd("SET", k, 0, json)>>
               /\ MemcachedSet(k, v, ttl, err) =>
                      calls' = IF ~ttl.given \/ ttl.n = 0
                               THEN <<Cmd("set", k, 0, json)>>
                               ELSE <<Cmd("set", k, ttl.n, json)>>]_vars

\* a RedisAdapter set with a ttl of one second sent a SETEX of one second
C23_Witness ==
    /\ provider = "redis"
    /\ ret = Returned("set", "A", JUndefined)
    /\ calls = <<Cmd("SETEX", "A", 1, Text(<<Quote("value1")>>))>>
    /\ backend["A"] = Text(<<Quote("value1")>>)

\* C24: with several callers of one MemoryAdapter, every get, set, delete,
\* has and clear takes effect in one step at the moment it is called, as it
\* would alone, and nothing happens to the store when a caller takes its
\* result; a get that follows the caller's own set or delete of the key,
\* with no call of another caller between, finds what that call left.
C24_CallsAreAtomic ==
    [][\A c \in Callers :
          /\ (promise[c] = NoPromise /\ promise'[c] # NoPromise) =>
                 \A k \in WideKeys :
                     /\ (ret'.op = "get" /\ CallGet(c, k)) =>
                            /\ cache' = GetCache(cache, now, k)
                            /\ promise'[c] = Returned("get", k, GetResult(cache, now, k))
                            /\ (own[c].clean /\ own[c].key = k /\ own[c].op = "set") =>
                                   /\ k \in KeysOf(cache)
                                   /\ ~Expired(EntryOf(cache, k), now) =>
                                          promise'[c].val = own[c].val
                            /\ (own[c].clean /\ own[c].key = k /\ own[c].op = "delete") =>
                                   promise'[c].val = JNull
                     /\ (ret'.op = "delete" /\ CallDelete(c, k)) =>
                            /\ cache' = LruDelete(cache, k)
                            /\ promise'[c] = Returned("delete", k, JUndefined)
                     /\ (ret'.op = "has" /\ CallHas(c, k)) =>
                            /\ cache' = cache
                            /\ promise'[c] = Returned("has", k,
                                                      JBool(HasResult(cache, now, k)))
                     /\ ret'.op = "set" =>
                            \A v \in CallerValues, ttl \in TtlArgs :
                                CallSet(c, k, v, ttl) =>
                                    IF HasCycle(v)
                                    THEN cache' = cache /\ promise'[c].val.t = "error"
                                    ELSE /\ cache' = SetCache(cache, maxSize, defaultTtl,
                                                              now, k, Text(Stringify(v)),
                                                              ttl)
                                         /\ promise'[c] = Returned("set", k, JUndefined)
                     /\ (ret'.op = "clear" /\ CallClear(c)) =>
                            cache' = <<>> /\ promise'[c].op = "clear"
          /\ promise[c] # NoPromise =>
                 /\ promise'[c] \in {promise[c], NoPromise}
                 /\ Resume(c) => cache' = cache /\ promise'[c] = NoPromise]_vars

\* a caller's get returned the value of its own set while the other caller
\* had not yet taken the result of its delete of the same key
C24_Witness ==
    /\ promise["c1"] = Returned("get", "A", JNum(42))
    /\ own["c1"].saw /\ own["c1"].clean
    /\ promise["c2"] = Returned("delete", "A", JUndefined)

\* what get, has and getStats of an instance with this store return
Answers(c, max, t) ==
    [k \in WideKeys |-> <<GetResult(c, t, k), HasResult(c, t, k), Stats(c, max)>>]

\* C25: two MemoryAdapter instances share no state: a call of one, or the
\* construction of one by new, createMemoryCache or createCache, changes
\* nothing in the other and no result of its get, has or getStats.
C25_InstancesAreSeparate ==
    [][/\ peer' # peer =>
           /\ cache' = cache /\ maxSize' = maxSize /\ defaultTtl' = defaultTtl
           /\ Answers(cache', maxSize', now') = Answers(cache, maxSize, now)
       /\ (cache' # cache \/ ret' # ret) =>
           /\ peer' = peer
           /\ Answers(peer'.cache, peer'.maxSize, now')
                  = Answers(peer.cache, peer.maxSize, now)]_vars

\* both instances hold the key, each with the value its own set stored
C25_Witness ==
    /\ peer.made /\ peer.ret = Returned("set", "A", JUndefined)
    /\ ret = Returned("set", "A", JUndefined)
    /\ Fetched("A") = JNum(42)
    /\ "A" \in KeysOf(peer.cache) /\ GetResult(peer.cache, now, "A") = JNull
    /\ HasResult(peer.cache, now, "A")

\* C26: after a set that returned without error (capacity >= 1) the key is
\* stored, and has(k) is true while the entry has not expired, whatever value
\* was passed.
C26_SetStores ==
    (ret.op = "set" /\ ret.val = JUndefined /\ maxSize >= 1) =>
        /\ ret.key \in KeysOf(cache)
        /\ ret.key \notin removed
        /\ ~Expired(EntryOf(cache, ret.key), now) => Present(ret.key)

\* what get(k) and has(k) of the adapter that was built answer in this
\* state when the backend call does not fail
GetAnswer(k) ==
    CASE provider = "memory" -> Fetched(k)
      [] provider = "memcached" -> MemcachedGetResult(k, NoError)
      [] OTHER -> RedisGetResult(k, NoError)
HasAnswer(k) ==
    CASE provider = "memory" -> JBool(Present(k))
      [] provider = "memcached" -> MemcachedHasResult(k, NoError)
      [] OTHER -> RedisHasResult(k, NoError)

\* C27 as claimed: for every adapter and in every state, get(k) returns null
\* exactly when has(k) returns false.
C27_GetHasAgree ==
    provider # "none" =>
        \A k \in WideKeys : GetAnswer(k) = JNull <=> HasAnswer(k) = JBool(FALSE)

\* the key holds the JSON text of null
HoldsNull(k) ==
    IF provider = "memory"
    THEN Present(k) /\ EntryOf(cache, k).value = <<"null">>
    ELSE backend[k] = Text(<<"null">>)

\* C27 as amended: when has(k) returns false, get(k) returns null, and when
\* get(k) returns a value other than null, has(k) returns true; a key that
\* holds the value null, and on the MemcachedAdapter a key whose string is
\* not valid JSON, has get(k) return null while has(k) returns true.
C27_AbsentIsNull ==
    provider # "none" =>
        \A k \in WideKeys :
            /\ HasAnswer(k) = JBool(FALSE) => GetAnswer(k) = JNull
            /\ (GetAnswer(k) # JNull /\ GetAnswer(k).t # "error") =>
                   HasAnswer(k) = JBool(TRUE)
            /\ HoldsNull(k) => (GetAnswer(k) = JNull /\ HasAnswer(k) = JBool(TRUE))
            /\ (/\ provider = "memcached" /\ backend[k].defined
                /\ deserialize(backend[k].toks).threw) =>
                   (GetAnswer(k) = JNull /\ HasAnswer(k) = JBool(TRUE))

\* a MemcachedAdapter get returned null for a string that is not valid JSON
\* and that the server still holds, so that has answers true
C27_Witness ==
    /\ provider = "memcached"
    /\ ret = Returned("get", "A", JNull)
    /\ backend["A"] = Text(<<"invalid-json">>)
    /\ HasAnswer("A") = JBool(TRUE) /\ GetAnswer("A") = JNull

\* C28: reading does not extend an entry's lifetime: the expiration the set
\* gave the entry is the one it has after any get or has, and an entry set
\* with ttl t is absent once more than t seconds have passed since the set.
C28_ReadsKeepExpiration ==
    \A k \in KeysOf(cache) :
        LET e == EntryOf(cache, k)
            g == GetCache(cache, now, k)
            h == HasCache(cache, now, k)
        IN  /\ (written[k].set /\ written[k].ttl > 0) =>
                   /\ e.start = written[k].at
                   /\ e.ttl = written[k].ttl * MsPerSecond
                   /\ now - written[k].at > written[k].ttl * MsPerSecond =>
                          ~Present(k) /\ Fetched(k) = JNull
            /\ k \in KeysOf(g) => EntryOf(g, k) = e
            /\ k \in KeysOf(h) /\ EntryOf(h, k) = e

\* a get returned the value of a key set with ttl 1 s, at a time when the
\* other stored key had been set already; the key has now expired, less
\* than 1 s after that get
C28_Witness ==
    /\ ret.op = "get" /\ ret.val = JNum(42) /\ ret.key \in KeysOf(cache)
    /\ Len(cache) = 2 /\ cache[2].key = ret.key
    /\ written[ret.key].ttl = 1 /\ written[cache[1].key].ttl = 1
    /\ written[ret.key].at < written[cache[1].key].at
    /\ now - written[ret.key].at > MsPerSecond
    /\ now - written[cache[1].key].at <= MsPerSecond
    /\ ~Present(ret.key)

\* C29: the del that MemcachedAdapter.get sends after a value that does not
\* deserialize never removes the value of a set of the same key that was
\* called, and succeeded, after that get returned null, whenever the server
\* carries the del out.
C29_CleanupKeepsLaterSet ==
    [][provider = "memcached" =>
           \A k \in WideKeys :
               (/\ k \in pending
                /\ ret = Returned("set", k, JUndefined)
                /\ Len(calls) = 1 /\ calls[1].cmd = "set"
                /\ backend[k] = calls[1].value
                /\ BackendDel(k)) =>
                   backend'[k] = backend[k]]_vars

\* C30: has(k) and getStats() leave the whole store as it was: the entries,
\* their values and expirations, and their order of use.  get(k) and
\* delete(k) change neither whether another key is stored nor its value nor
\* its expiration.  Of the calls that name a key, only a set of a key that is
\* not stored, into a store that holds maxSize entries, removes a key other
\* than the one it names.
C30_Frame ==
    [][(now' = now /\ ret'.op # "clear") =>
           /\ ret'.op \in {"has", "getStats"} => cache' = cache
           /\ ret'.op \in {"get", "delete"} =>
                  \A j \in Keys \ {ret'.key} :
                      /\ j \in KeysOf(cache') <=> j \in KeysOf(cache)
                      /\ j \in KeysOf(cache) => EntryOf(cache', j) = EntryOf(cache, j)
           /\ (KeysOf(cache) \ KeysOf(cache')) \ {ret'.key} # {} =>
                  /\ ret'.op = "set"
                  /\ ret'.key \notin KeysOf(cache)
                  /\ Len(cache) = maxSize]_vars

\* a get has removed its own expired key and another key is still stored
C30_Witness ==
    /\ ret.op = "get"
    /\ removed = {ret.key}
    /\ cache # <<>>

====
